---- MODULE Spec2Model ----
(***************************************************************************)
(* Model of src/bernoulli_solver.py: analytical_solution,                  *)
(* bernoulli_equation and secant_method.                                   *)
(*                                                                         *)
(* The program computes in Python floats (binary floating point, 53-bit    *)
(* significand, every operation rounded to nearest-even).  The model keeps *)
(* that arithmetic and narrows the significand to Prec bits: a number is a *)
(* pair <<m, e>> standing for m * 2^e, with m = 0 (and e = 0) or           *)
(* 2^(Prec-1) <= |m| < 2^Prec.  Each operation computes the exact result   *)
(* and rounds it once, to nearest, ties to even.  The exponent is an       *)
(* unbounded integer: the inputs below stay far from a double's overflow   *)
(* and underflow range.                                                    *)
(***************************************************************************)
EXTENDS Integers, Sequences, FiniteSets, TLC

\* Significand width of the modelled floats (a double has 53).
Prec == 12

\* Largest explicit iteration budget among the inputs (besides the default).
MaxIterBound == 3

(***************************************************************************)
(* Floating point                                                          *)
(***************************************************************************)
Zero == <<0, 0>>

Abs(n) == IF n < 0 THEN -n ELSE n

Sgn(n) == IF n < 0 THEN -1 ELSE IF n = 0 THEN 0 ELSE 1

RECURSIVE BitLen(_)
\* Number of bits of the natural number n.
BitLen(n) == IF n = 0 THEN 0 ELSE 1 + BitLen(n \div 2)

\* n with its k low bits removed, rounded to nearest, ties to even; sticky
\* says that the exact value lies strictly above n (by less than one unit).
RoundShift(n, k, sticky) ==
    IF k = 0 THEN n
    ELSE LET q == n \div (2^k)
             r == n % (2^k)
             half == 2^(k-1)
             up == \/ r > half
                   \/ r = half /\ sticky
                   \/ r = half /\ ~sticky /\ q % 2 = 1
         IN  IF up THEN q + 1 ELSE q

\* The float nearest to s * (n + d) * 2^e, n a natural number, s a sign,
\* 0 <= d < 1 and d > 0 exactly when sticky.
Norm(s, n, e, sticky) ==
    IF n = 0 THEN Zero
    ELSE LET b == BitLen(n)
         IN  IF b <= Prec
             THEN <<s * n * 2^(Prec - b), e - (Prec - b)>>
             ELSE LET k == b - Prec
                      q == RoundShift(n, k, sticky)
                  IN  IF q = 2^Prec
                      THEN <<s * 2^(Prec-1), e + k + 1>>
                      ELSE <<s * q, e + k>>

\* int -> float
FromInt(n) == Norm(Sgn(n), Abs(n), 0, FALSE)

FNeg(a) == <<-a[1], a[2]>>

FAbs(a) == <<Abs(a[1]), a[2]>>

FSign(a) == Sgn(a[1])

FMul(a, b) ==
    Norm(Sgn(a[1]) * Sgn(b[1]), Abs(a[1]) * Abs(b[1]), a[2] + b[2], FALSE)

\* a / b for b # 0 (Python raises ZeroDivisionError for b = 0: the callers
\* test for it).
FDiv(a, b) ==
    IF a[1] = 0 THEN Zero
    ELSE LET n == Abs(a[1]) * 2^(Prec + 2)
             q == n \div Abs(b[1])
             r == n % Abs(b[1])
         IN  Norm(Sgn(a[1]) * Sgn(b[1]), q, a[2] - b[2] - (Prec + 2), r # 0)

FAdd(a, b) ==
    IF a[1] = 0 THEN b
    ELSE IF b[1] = 0 THEN a
    ELSE LET hi == IF a[2] >= b[2] THEN a ELSE b
             lo == IF a[2] >= b[2] THEN b ELSE a
             d  == hi[2] - lo[2]
         IN  IF d > Prec + 2 THEN hi
             ELSE LET n == hi[1] * 2^d + lo[1]
                  IN  Norm(Sgn(n), Abs(n), lo[2], FALSE)

FSub(a, b) == FAdd(a, FNeg(b))

FLt(a, b) == FSign(FSub(a, b)) < 0

FLe(a, b) == FSign(FSub(a, b)) <= 0

FGt(a, b) == FLt(b, a)

RECURSIVE SqrtIter(_, _, _)
\* The r in lo..hi with r*r <= n < (r+1)*(r+1), by bisection.
SqrtIter(n, lo, hi) ==
    IF lo = hi THEN lo
    ELSE LET mid == (lo + hi + 1) \div 2
         IN  IF mid * mid <= n THEN SqrtIter(n, mid, hi)
             ELSE SqrtIter(n, lo, mid - 1)

\* sqrt(a) for a >= 0, correctly rounded.
FSqrt(a) ==
    IF a[1] = 0 THEN Zero
    ELSE LET s0 == Prec + 1
             s  == IF (a[2] - s0) % 2 = 0 THEN s0 ELSE s0 + 1
             n  == a[1] * 2^s
             r  == SqrtIter(n, 0, 2^(Prec + 2))
         IN  Norm(1, r, (a[2] - s) \div 2, r * r # n)

\* The decimal literal n/d as the format holds it.
Lit(n, d) == FDiv(FromInt(n), FromInt(d))

(***************************************************************************)
(* Constants of the program                                                *)
(***************************************************************************)
\* The absent value (Python's None); a float is a pair, so None differs
\* from every float.
None == <<>>

One == FromInt(1)

Two == FromInt(2)

Half == Lit(1, 2)

\* tol=1e-6, the default of secant_method
DefaultTol == Lit(1, 1000000)

\* max_iter=100, the default of secant_method
DefaultMaxIter == 100

\* 1e-10, the near-zero slope threshold
SlopeThreshold == FDiv(Lit(1, 100000), FromInt(100000))

\* 1.1, the factor of the nudge
NudgeFactor == Lit(11, 10)

(***************************************************************************)
(* bernoulli_equation(v2, params)                                          *)
(***************************************************************************)
bernoulli_equation(v2, params) ==
    LET P1  == params[1]
        P2  == params[2]
        rho == params[3]
        g   == params[4]
        h1  == params[5]
        h2  == params[6]
        v1  == params[7]
        scale == IF FGt(FAbs(P1), One) THEN FAbs(P1) ELSE One
        e1 == FAdd(FAdd(P1, FMul(FMul(Half, rho), FMul(v1, v1))),
                   FMul(FMul(rho, g), h1))
        e2 == FAdd(FAdd(P2, FMul(FMul(Half, rho), FMul(v2, v2))),
                   FMul(FMul(rho, g), h2))
    IN  FDiv(FSub(e1, e2), scale)

(***************************************************************************)
(* analytical_solution(P1, P2, rho, g, h1, h2, v1)                         *)
(***************************************************************************)
\* term_under_sqrt with the heights exchanged: rho*g*(h2 - h1)
TermUnderSqrtHeightsSwapped(params) ==
    LET P1  == params[1]
        P2  == params[2]
        rho == params[3]
        g   == params[4]
        h1  == params[5]
        h2  == params[6]
        v1  == params[7]
    IN  FMul(FDiv(Two, rho),
             FAdd(FAdd(FSub(P1, P2), FMul(FMul(rho, g), FSub(h2, h1))),
                  FMul(FMul(Half, rho), FMul(v1, v1))))

\* term_under_sqrt, for rho # 0
TermUnderSqrt(params) ==
    LET P1  == params[1]
        P2  == params[2]
        rho == params[3]
        g   == params[4]
        h1  == params[5]
        h2  == params[6]
        v1  == params[7]
    IN  FMul(FDiv(Two, rho),
             FAdd(FAdd(FSub(P1, P2), FMul(FMul(rho, g), FSub(h1, h2))),
                  FMul(FMul(Half, rho), FMul(v1, v1))))

\* the test written term_under_sqrt <= 0
NoRealSolutionOrZero(term) == FLe(term, Zero)

\* if term_under_sqrt < 0: raise ValueError
NoRealSolution(term) == FLt(term, Zero)

\* The outcome of the call: the try block and its except clause, which
\* turns every exception (the ZeroDivisionError of 2/rho, the ValueError of
\* the negative term) into a ValueError.
analytical_solution(params) ==
    IF params[3] = Zero
    THEN [raised |-> TRUE, cause |-> "ZeroDivisionError", term |-> None,
          value |-> None]
    ELSE LET term == TermUnderSqrt(params)
         IN  IF NoRealSolution(term)
             THEN [raised |-> TRUE, cause |-> "ValueError", term |-> term,
                   value |-> None]
             ELSE [raised |-> FALSE, cause |-> "none", term |-> term,
                   value |-> FSqrt(term)]

(***************************************************************************)
(* secant_method(f, x0, x1, params, tol, max_iter): its tests and updates  *)
(***************************************************************************)
\* the validation written x0 < 0 or x1 < 0
InvalidGuessesStrict(a, b) == FLt(a, Zero) \/ FLt(b, Zero)

\* if x0 <= 0 or x1 <= 0
InvalidGuesses(a, b) == FLe(a, Zero) \/ FLe(b, Zero)

\* if abs(x1 - x0) < tol
TooClose(a, b, tol) == FLt(FAbs(FSub(b, a)), tol)

\* the nudge leaving the guess where it is
NudgeIdentity(a) == a

\* x1 = x0 * 1.1
Nudge(a) == FMul(a, NudgeFactor)

\* the convergence test without abs: f_x1 < tol
IsConvergedSigned(f_x1, tol) == FLt(f_x1, tol)

\* if abs(f_x1) < tol
IsConverged(f_x1, tol) == FLt(FAbs(f_x1), tol)

\* if abs(slope) < 1e-10
SlopeCollapsed(slope) == FLt(FAbs(slope), SlopeThreshold)

\* x_new = x1 - f_x1 * (x1 - x0)/(f_x1 - f_x0), for f_x1 # f_x0
SecantUpdate(a, b, f_x0, f_x1) ==
    FSub(b, FDiv(FMul(f_x1, FSub(b, a)), FSub(f_x1, f_x0)))

\* the update used as it is, without the positivity guard
PositiveGuardOff(x_raw, a, b) == x_raw

\* if x_new <= 0: x_new = (x0 + x1) / 2
PositiveGuard(x_raw, a, b) ==
    IF FLe(x_raw, Zero) THEN FDiv(FAdd(a, b), Two) ELSE x_raw

\* the oscillation check started one record early: len(iterations) > 2
IsOscillatingEarly(its) ==
    /\ Len(its) > 2
    /\ LET n == Len(its)
           last_three == [k \in 1..3 |-> FAbs(its[n - 3 + k][3])]
       IN  \A k \in 2..3 : FGt(last_three[k], last_three[1])

\* if len(iterations) > 3: last_three = [abs(it[2]) for it in iterations[-3:]]
\*     if all(e > last_three[0] for e in last_three[1:])
IsOscillating(its) ==
    /\ Len(its) > 3
    /\ LET n == Len(its)
           last_three == [k \in 1..3 |-> FAbs(its[n - 3 + k][3])]
       IN  \A k \in 2..3 : FGt(last_three[k], last_three[1])

\* the record numbered from 0: (i, x1, f_x1)
TraceRecordZeroBased(idx, b, f_x1) == <<idx, b, f_x1>>

\* a slope collapse returning x1 as well
ReturnedSolutionBestEffort(ex, b) ==
    IF ex \in {"converged", "slope"} THEN b ELSE None

\* The first element of the tuple a pass returns: x1 on convergence, None
\* on the three failures.
ReturnedSolution(ex, b) == IF ex = "converged" THEN b ELSE None

\* iterations.append((i+1, x1, f_x1))
TraceRecord(idx, b, f_x1) == <<idx + 1, b, f_x1>>

\* One pass of the for loop body with x0 = a, x1 = b and i = idx: the trace
\* with its new record, the exit taken ("none": the loop goes on) and the
\* locals as the pass leaves them.
LoopBody(a, b, params, tol, its, idx) ==
    LET f_x0 == bernoulli_equation(a, params)
        f_x1 == bernoulli_equation(b, params)
        its1 == Append(its, TraceRecord(idx, b, f_x1))
        stay == [iterations |-> its1, exit |-> "none", divzero |-> "none",
                 x0 |-> a, x1 |-> b, x_raw |-> None, x_new |-> None]
    IN  IF IsConverged(f_x1, tol)
        THEN [stay EXCEPT !.exit = "converged"]
        ELSE IF FSub(b, a) = Zero
        THEN [stay EXCEPT !.exit = "zerodiv", !.divzero = "slope"]
        ELSE IF SlopeCollapsed(FDiv(FSub(f_x1, f_x0), FSub(b, a)))
        THEN [stay EXCEPT !.exit = "slope"]
        ELSE IF FSub(f_x1, f_x0) = Zero
        THEN [stay EXCEPT !.exit = "zerodiv", !.divzero = "update"]
        ELSE LET x_raw == SecantUpdate(a, b, f_x0, f_x1)
                 x_new == PositiveGuard(x_raw, a, b)
                 moved == [stay EXCEPT !.x0 = b, !.x1 = x_new,
                                       !.x_raw = x_raw, !.x_new = x_new]
             IN  IF IsOscillating(its1)
                 THEN [moved EXCEPT !.exit = "oscillating"]
                 ELSE moved

(***************************************************************************)
(* Inputs                                                                  *)
(***************************************************************************)
\* (P1, P2, rho, g, h1, h2, v1) from integers and decimal literals
Params(P1, P2, rho, g100, h1, h2, v1) ==
    <<FromInt(P1), FromInt(P2), FromInt(rho), Lit(g100, 100), FromInt(h1),
      FromInt(h2), FromInt(v1)>>

\* the boundary scenario of the specification
BoundaryParams == Params(101325, 101325, 1000, 981, 0, 1, 2)

\* the failure scenario of the specification
FailureParams == Params(0, 1000000000, 1000, 981, 0, 0, 1)

ParamSets ==
    { BoundaryParams,
      FailureParams,
      Params(101325, 101325, 1000, 981, 1, 0, 2),
      Params(0, 0, 2, 0, 0, 0, 3),
      Params(0, 0, 2, 0, 0, 0, 0),
      Params(1, 0, 0, 981, 0, 0, 1),
      Params(0, 0, 1, 981, 1, 0, 0) }

Guesses == { FromInt(-1), Zero, Lit(1, 2), One, Two, FromInt(4), FromInt(5),
             FAdd(FromInt(5), Lit(1, 512)) }

Tols == { DefaultTol, Lit(1, 64) }

MaxIters == (0..MaxIterBound) \cup {DefaultMaxIter}

Inputs ==
    [params : ParamSets, x0 : Guesses, x1 : Guesses, tol : Tols,
     max_iter : MaxIters]

(***************************************************************************)
(* State                                                                   *)
(***************************************************************************)
VARIABLES
    args,        \* the arguments of the calls
    pc,          \* "analytical", "secant", "loop", "returned", "raised"
    analytic,    \* the outcome of analytical_solution (cause "pending" before)
    x0, x1,      \* the locals x0, x1 of secant_method
    i,           \* passes of the for loop completed
    iterations,  \* the local iterations: records <<index, x1, f_x1>>
    x_raw,       \* x_new as line 60 computed it in the last pass, or None
    x_new,       \* x_new after the positivity guard in the last pass, or None
    exit,        \* the return taken, "none" while running
    divzero,     \* the division that raised ZeroDivisionError, or "none"
    solution,    \* first element of the returned tuple
    converged,   \* third element of the returned tuple
    nEval        \* calls of f made so far

vars == <<args, pc, analytic, x0, x1, i, iterations, x_raw, x_new, exit,
          divzero, solution, converged, nEval>>

Init ==
    /\ args \in Inputs
    /\ pc = "analytical"
    /\ analytic = [raised |-> FALSE, cause |-> "pending", term |-> None,
                   value |-> None]
    /\ x0 = args.x0
    /\ x1 = args.x1
    /\ i = 0
    /\ iterations = <<>>
    /\ x_raw = None
    /\ x_new = None
    /\ exit = "none"
    /\ divzero = "none"
    /\ solution = None
    /\ converged = FALSE
    /\ nEval = 0

\* The caller asks for the closed form first (it may fail), then runs the
\* iterative solver on the same parameters.
AnalyticalSolution ==
    /\ pc = "analytical"
    /\ analytic' = analytical_solution(args.params)
    /\ pc' = "secant"
    /\ UNCHANGED <<args, x0, x1, i, iterations, x_raw, x_new, exit, divzero,
                   solution, converged, nEval>>

\* secant_method up to the loop: iterations = [], the validation of the
\* guesses and the nudge.
SecantEntry ==
    /\ pc = "secant"
    /\ iterations' = <<>>
    /\ IF InvalidGuesses(x0, x1)
       THEN /\ pc' = "raised"
            /\ exit' = "ValueError"
            /\ x1' = x1
       ELSE /\ pc' = "loop"
            /\ exit' = exit
            /\ x1' = IF TooClose(x0, x1, args.tol) THEN Nudge(x0) ELSE x1
    /\ UNCHANGED <<args, analytic, x0, i, x_raw, x_new, divzero, solution,
                   converged, nEval>>

\* One pass of the for loop (i < max_iter).
Iterate ==
    /\ pc = "loop"
    /\ i < args.max_iter
    /\ \E r \in {LoopBody(x0, x1, args.params, args.tol, iterations, i)} :
        /\ iterations' = r.iterations
        /\ nEval' = nEval + 2
        /\ x0' = r.x0
        /\ x1' = r.x1
        /\ x_raw' = r.x_raw
        /\ x_new' = r.x_new
        /\ exit' = r.exit
        /\ divzero' = r.divzero
        /\ i' = i + 1
        /\ pc' = IF r.exit = "none" THEN "loop" ELSE "returned"
        /\ solution' = ReturnedSolution(r.exit, x1)
        /\ converged' = (r.exit = "converged")
    /\ UNCHANGED <<args, analytic>>

\* the exhausted return handing back the last evaluated candidate
ExhaustedReturnsX0 ==
    /\ pc = "loop"
    /\ i >= args.max_iter
    /\ pc' = "returned"
    /\ exit' = "exhausted"
    /\ solution' = x0
    /\ converged' = FALSE
    /\ UNCHANGED <<args, analytic, x0, x1, i, iterations, x_raw, x_new,
                   divzero, nEval>>

\* The loop ran out of passes: return x1, iterations, False.
Exhausted ==
    /\ pc = "loop"
    /\ i >= args.max_iter
    /\ pc' = "returned"
    /\ exit' = "exhausted"
    /\ solution' = x1
    /\ converged' = FALSE
    /\ UNCHANGED <<args, analytic, x0, x1, i, iterations, x_raw, x_new,
                   divzero, nEval>>

Next == AnalyticalSolution \/ SecantEntry \/ Iterate \/ Exhausted

Spec == Init /\ [][Next]_vars

(***************************************************************************)
(* Properties                                                              *)
(***************************************************************************)
\* the trace length, and |residual| and candidate of its k-th record
NRec == Len(iterations)

AbsRes(k) == FAbs(iterations[k][3])

Cand(k) == iterations[k][2]

Positive(a) == FGt(a, Zero)

Failed == {"slope", "zerodiv", "oscillating"}

\* C1: whenever secant_method returns converged = True, the returned
\* solution s satisfies |f(s, params)| < tol, and s is the candidate of the
\* last trace record.
ConvergedImpliesRoot ==
    (pc = "returned" /\ converged) =>
        /\ solution # None
        /\ FLt(FAbs(bernoulli_equation(solution, args.params)), args.tol)
        /\ NRec >= 1
        /\ solution = Cand(NRec)

\* a call that converged after at least two secant updates
ConvergedAfterUpdates == pc = "returned" /\ converged /\ NRec >= 3

\* the boundary scenario: its parameters, x0 = 1.0, x1 = 2.0 and the defaults
InBoundaryScenario ==
    /\ args.params = BoundaryParams
    /\ args.x0 = One
    /\ args.x1 = Two
    /\ args.tol = DefaultTol
    /\ args.max_iter = DefaultMaxIter

\* C2 as stated: in the boundary scenario analytical_solution returns a
\* value without raising and secant_method returns converged = True with
\* a solution within the default tolerance of the analytical value.
BoundaryScenarioConverges ==
    (InBoundaryScenario /\ pc \in {"returned", "raised"}) =>
        /\ ~analytic.raised
        /\ converged
        /\ FLt(FAbs(FSub(solution, analytic.value)), DefaultTol)

\* C2 as amended: in the boundary scenario the term under the square root
\* is negative and analytical_solution raises the ValueError;
\* secant_method does not raise, never converges and returns
\* (None, trace, False) through the oscillation exit after four passes.
BoundaryScenarioFails ==
    InBoundaryScenario =>
        /\ pc # "analytical" =>
              /\ analytic.raised
              /\ analytic.cause = "ValueError"
              /\ FLt(analytic.term, Zero)
        /\ pc # "raised"
        /\ ~converged
        /\ pc = "returned" =>
              /\ exit = "oscillating"
              /\ solution = None
              /\ NRec = 4

\* the boundary scenario has run to its return
BoundaryScenarioReturned == InBoundaryScenario /\ pc = "returned"

\* C3: every candidate recorded in the trace is > 0, also in a pass whose
\* raw secant update was <= 0, where the midpoint (x0 + x1)/2 of the pass's
\* candidates replaces it; a returned solution is > 0 as well.
PositivityGuard ==
    /\ \A k \in 1..NRec : Positive(Cand(k))
    /\ solution # None => Positive(solution)
    /\ x_new # None => Positive(x_new)
    /\ (x_raw # None /\ FLe(x_raw, Zero)) =>
          x_new = FDiv(FAdd(IF NRec >= 2 THEN Cand(NRec - 1) ELSE args.x0,
                            Cand(NRec)), Two)
    /\ (x_raw # None /\ Positive(x_raw)) => x_new = x_raw

\* the raw update of the second pass was <= 0 and the third record holds
\* the midpoint of the first two candidates instead
BisectionRecorded ==
    /\ NRec >= 3
    /\ LET a == Cand(1)
           b == Cand(2)
           f_a == bernoulli_equation(a, args.params)
           f_b == bernoulli_equation(b, args.params)
       IN  /\ FSub(f_b, f_a) # Zero
           /\ FLe(SecantUpdate(a, b, f_a, f_b), Zero)
           /\ Cand(3) = FDiv(FAdd(a, b), Two)

\* C4 as stated: the solution is absent exactly in the slope-collapse and
\* oscillation outcomes, present in the converged and exhausted outcomes,
\* and never absent together with converged = True.
AbsentOnlySlopeOrOscillation ==
    pc = "returned" =>
        /\ (solution = None) <=> (exit \in {"slope", "oscillating"})
        /\ ~(solution = None /\ converged)

\* C4 as amended: the solution is absent exactly in the three failure
\* returns (slope below the threshold, the caught ZeroDivisionError,
\* oscillation), all with converged = False; it is present in the converged
\* return (the only one with converged = True) and in the exhausted return.
AbsentIffFailure ==
    pc = "returned" =>
        /\ exit \in Failed \cup {"converged", "exhausted"}
        /\ (solution = None) <=> (exit \in Failed)
        /\ converged <=> (exit = "converged")
        /\ ~(solution = None /\ converged)

\* the caught ZeroDivisionError returned an absent solution
ZeroDivisionReturned ==
    pc = "returned" /\ exit = "zerodiv" /\ solution = None /\ ~converged

\* C5: a non-positive guess makes secant_method raise the ValueError
\* before any pass: f is never called, the trace stays empty and nothing is
\* returned; with both guesses positive the call never raises.
InvalidInputRejected ==
    /\ (FLe(args.x0, Zero) \/ FLe(args.x1, Zero)) =>
          /\ pc \notin {"loop", "returned"}
          /\ nEval = 0
          /\ iterations = <<>>
          /\ solution = None
          /\ ~converged
          /\ exit \in {"none", "ValueError"}
    /\ (Positive(args.x0) /\ Positive(args.x1)) => pc # "raised"
    /\ pc = "raised" => exit = "ValueError"

\* the call raised for a second guess of exactly zero
RaisedForZeroGuess ==
    pc = "raised" /\ Positive(args.x0) /\ args.x1 = Zero

\* the indices of the trace are 1, 2, ..., n with n <= max_iter, one record
\* per pass
TraceIndexed ==
    /\ \A k \in 1..NRec : iterations[k][1] = k
    /\ NRec <= args.max_iter
    /\ NRec = i

\* a step leaves the trace alone or, when it is a pass of the loop, appends
\* one record to it
TraceAppendOnly ==
    /\ i' = i => iterations' = iterations
    /\ i' # i =>
          /\ Len(iterations') = Len(iterations) + 1
          /\ SubSeq(iterations', 1, Len(iterations)) = iterations

\* C6: in every outcome the trace's indices are exactly 1, 2, ..., n in
\* order with n <= max_iter; each pass of the loop appends one record and
\* no record is ever modified or removed.
TraceWellFormed == []TraceIndexed /\ [][TraceAppendOnly]_vars

\* a call that used its whole explicit budget
TraceFilledBudget ==
    pc = "returned" /\ args.max_iter = MaxIterBound /\ NRec = MaxIterBound

AnalyticalDomainError ==
    pc # "analytical" =>
        /\ analytic.raised <=>
              (args.params[3] = Zero \/ FLt(analytic.term, Zero))
        /\ args.params[3] = Zero <=> analytic.term = None
        /\ ~analytic.raised =>
              /\ analytic.value # None
              /\ analytic.value = FSqrt(analytic.term)
              /\ FSign(analytic.value) >= 0
        /\ analytic.raised => analytic.value = None
        /\ args.params = FailureParams => analytic.raised

\* the failure scenario raised
FailureScenarioRaised ==
    pc # "analytical" /\ args.params = FailureParams /\ analytic.raised

\* the rule of the oscillation check on the trace: at least four records,
\* and |residual| of each of the last two above that of the third-last
WorseThanThirdLast ==
    /\ NRec >= 4
    /\ FGt(AbsRes(NRec - 1), AbsRes(NRec - 2))
    /\ FGt(AbsRes(NRec), AbsRes(NRec - 2))

\* C9 as stated (its last part): whenever the oscillation failure is
\* returned, the residual magnitudes of the last three records increase
\* strictly from the third-last to the last.
OscillationMonotone ==
    exit = "oscillating" =>
        /\ FGt(AbsRes(NRec - 1), AbsRes(NRec - 2))
        /\ FGt(AbsRes(NRec), AbsRes(NRec - 1))

\* C9 as amended: a pass that reaches its end returns the oscillation
\* failure (None, trace, False) exactly when the trace holds at least four
\* records and the residual magnitudes of the last two each exceed that of
\* the third-last; the last may be below the second-last.
OscillationRule ==
    /\ exit = "oscillating" =>
          /\ pc = "returned"
          /\ WorseThanThirdLast
          /\ solution = None
          /\ ~converged
    /\ ((pc = "loop" \/ exit = "exhausted") /\ i >= 1) => ~WorseThanThirdLast

\* the oscillation failure was returned
OscillationReturned == pc = "returned" /\ exit = "oscillating" /\ NRec >= 4

\* C10 as stated (its last part): the candidate returned on exhaustion is
\* not the candidate of the last trace record.
ExhaustedNotLastRecord ==
    (exit = "exhausted" /\ args.max_iter >= 1) => solution # Cand(NRec)

\* C10 as amended: on exhaustion with max_iter >= 1 the call returns
\* (x1, trace, False), the trace has exactly max_iter records and x1 is the
\* x_new of the last pass, which was never appended to the trace nor passed
\* to f: f was called twice per pass, last on the candidates that are now
\* x0 and the last record's.  The returned value may equal the last
\* record's candidate.
BudgetExhaustion ==
    (exit = "exhausted" /\ args.max_iter >= 1) =>
        /\ pc = "returned"
        /\ NRec = args.max_iter
        /\ ~converged
        /\ x_new # None
        /\ solution = x_new
        /\ solution = x1
        /\ x0 = Cand(NRec)
        /\ nEval = 2 * args.max_iter

\* the budget ran out and the returned candidate is a new one
ExhaustedWithNewCandidate ==
    /\ exit = "exhausted"
    /\ args.max_iter >= 2
    /\ solution # Cand(NRec)

====
